---- MODULE Spec2Model ----
(***************************************************************************)
(* A model of ConvLayer (src/conv_layer.py): one convolutional layer with  *)
(* a forward pass, an optimised and a naive backward pass and an Adam      *)
(* parameter update.                                                       *)
(*                                                                         *)
(* Arrays are records [shape, data]: data is the flat C-order buffer of    *)
(* the numpy array, so that strided views (as_strided) are address         *)
(* arithmetic over it, as in the source.  Real numbers are fixed-point     *)
(* integers counting units of 1/Scale; every product and quotient is       *)
(* rounded down to the grid, the way a float operation rounds to the       *)
(* nearest representable value.                                            *)
(***************************************************************************)
EXTENDS Integers, Sequences, FiniteSets, TLC

\* ------------------------------------------------------------------------
\* Bounds of the model
\* ------------------------------------------------------------------------
MaxCalls == 2       \* calls made on one layer
MaxDim == 2         \* largest input height and width
MaxT == 2           \* largest Adam step index a trainer passes
MaxSteps == 5       \* calls made in a training run

Scale == 10 ^ 4     \* fixed-point units per 1.0
SqrtScale == 10 ^ 2

Batches == {1, 2}
Channels == {<<1, 1>>, <<2, 1>>, <<1, 2>>}     \* (C_in, C_out)
Filters == {1, 2}
StrideValues == {1, 2, 3}
PadValues == {0, 1}
Activations == {"relu", "none"}
Lambdas == {0, Scale}
Rates == {Scale \div 10}
Patterns == {"ones", "mixed"}

\* ------------------------------------------------------------------------
\* Fixed-point arithmetic
\* ------------------------------------------------------------------------
FMul(a, c) ==
    LET ai == a \div Scale
        af == a % Scale
        ci == c \div Scale
        cf == c % Scale
    IN  ai * ci * Scale + ai * cf + af * ci + (af * cf) \div Scale

\* a / c for c > 0
FDiv(a, c) ==
    LET q == a \div c
        r == a % c
        q1 == (r * SqrtScale) \div c
        r1 == (r * SqrtScale) % c
    IN  q * Scale + q1 * SqrtScale + (r1 * SqrtScale) \div c

RECURSIVE ISqrtIter(_, _, _)
ISqrtIter(n, lo, hi) ==
    IF lo >= hi THEN lo
    ELSE LET mid == (lo + hi + 1) \div 2
         IN  IF mid * mid <= n THEN ISqrtIter(n, mid, hi)
             ELSE ISqrtIter(n, lo, mid - 1)

ISqrt(n) == ISqrtIter(n, 0, 46340)

\* np.sqrt on the grid
FSqrt(x) == IF x < 20 * Scale THEN ISqrt(x * Scale) ELSE ISqrt(x) * SqrtScale

RECURSIVE FPow(_, _)
FPow(a, t) == IF t = 0 THEN Scale ELSE FMul(a, FPow(a, t - 1))

\* int(a / c) of Python: true division, then truncation toward zero
IntDiv(a, c) == IF a >= 0 THEN a \div c ELSE -((-a) \div c)

\* ------------------------------------------------------------------------
\* Arrays
\* ------------------------------------------------------------------------
RECURSIVE SeqSum(_)
SeqSum(s) == IF s = <<>> THEN 0 ELSE Head(s) + SeqSum(Tail(s))

RECURSIVE Prod(_)
Prod(s) == IF s = <<>> THEN 1 ELSE Head(s) * Prod(Tail(s))

\* numpy's .strides of a C-contiguous array, in elements
Strides(shape) == [k \in 1..Len(shape) |-> Prod(SubSeq(shape, k + 1, Len(shape)))]

\* np.zeros(shape)
Zeros(shape) == [shape |-> shape, data |-> [k \in 1..Prod(shape) |-> 0]]

\* the element of a 4-dimensional array at a 0-based index
At(T, i1, i2, i3, i4) ==
    T.data[1 + ((i1 * T.shape[2] + i2) * T.shape[3] + i3) * T.shape[4] + i4]

\* the k-th (0-based) coordinate of the flat position pos in an array of that shape
Coord(shape, pos, k) == (pos \div Strides(shape)[k]) % shape[k]

\* an array given by its elements
Build4(shape, F(_, _, _, _)) ==
    LET st == Strides(shape)
    IN  [shape |-> shape,
         data |-> [k \in 1..Prod(shape) |->
                     F(((k - 1) \div st[1]) % shape[1], ((k - 1) \div st[2]) % shape[2],
                       ((k - 1) \div st[3]) % shape[3], ((k - 1) \div st[4]) % shape[4])]]

\* np.pad(T, ((0,0),(p,p),(p,p),(0,0)), mode='constant', constant_values=(0,0))
NpPad(T, p) ==
    Build4(<<T.shape[1], T.shape[2] + 2 * p, T.shape[3] + 2 * p, T.shape[4]>>,
           LAMBDA n, i, j, c :
               IF i >= p /\ i < T.shape[2] + p /\ j >= p /\ j < T.shape[3] + p
               THEN At(T, n, i - p, j - p, c) ELSE 0)

\* the inputs the model draws: arrays filled from a flat pattern
PatternCycle == <<1, -2, 2, -1, 0>>
PatternData(kind, n, phase) ==
    [k \in 1..n |-> IF kind = "ones" THEN Scale
                    ELSE IF kind = "zeros" THEN 0
                    ELSE PatternCycle[((k - 1 + phase) % Len(PatternCycle)) + 1] * Scale]
PatternArray(kind, shape, phase) ==
    [shape |-> shape, data |-> PatternData(kind, Prod(shape), phase)]

NoArray == [shape |-> <<>>, data |-> <<>>]

\* ------------------------------------------------------------------------
\* The layer
\* ------------------------------------------------------------------------
VARIABLES dim_in, dim_out, f, n_c, stride, pad, activation, lamb,
          X, Z, W, b, dX, dW, db, vW, vb, sW, sb, dZ_pad,
          calls, forwards, last, ret

config == <<dim_in, dim_out, f, n_c, stride, pad, activation, lamb>>
params == <<W, b>>
cache == <<X, Z>>
grads == <<dX, dW, db>>
moments == <<vW, vb, sW, sb>>
vars == <<config, cache, params, grads, moments, dZ_pad, calls, forwards, last, ret>>

\* np.maximum(0, z)
_relu(z) == [shape |-> z.shape, data |-> [k \in 1..Len(z.data) |-> IF z.data[k] > 0 THEN z.data[k] ELSE 0]]

\* np.float64(z > 0)
_deriv_relu(z) == [shape |-> z.shape, data |-> [k \in 1..Len(z.data) |-> IF z.data[k] > 0 THEN Scale ELSE 0]]

\* the array _allocate_dZ_pad(m) returns, from the shapes of X, W and Z
_allocate_dZ_pad(m, Xs, Ws, Zs) ==
    LET in_h == Xs[2] + (Ws[1] - 1)
        in_w == Xs[3] + (Ws[1] - 1)
    IN  Zeros(<<m, in_h, in_w, Zs[4]>>)

\* __init_weights: a draw of np.random.randn(f, f, C_in, c) * sqrt(2 / (H * W))
__init_weights(wkind, ff, c, din) == PatternArray(wkind, <<ff, ff, din[4], c>>, 2)

DimOutSinglePad(din, ff, c, s, p) ==
    <<din[1], 1 + IntDiv(din[2] - ff + p, s), 1 + IntDiv(din[3] - ff + p, s), c>>

\* __init__: the output shape
DimOut(din, ff, c, s, p) ==
    <<din[1], 1 + IntDiv(din[2] - ff + 2 * p, s), 1 + IntDiv(din[3] - ff + 2 * p, s), c>>

\* the windows of the filter lie inside the padded input
WindowFits == /\ dim_in[2] - f + 2 * pad >= 0
              /\ dim_in[3] - f + 2 * pad >= 0

Construct(din, ff, c, s, p, act, lam, wkind) ==
    /\ dim_in = din
    /\ dim_out = DimOut(din, ff, c, s, p)
    /\ f = ff
    /\ n_c = c
    /\ stride = s
    /\ pad = p
    /\ activation = act
    /\ lamb = lam
    /\ X = Zeros(din)
    /\ Z = Zeros(DimOut(din, ff, c, s, p))
    /\ W = __init_weights(wkind, ff, c, din)
    /\ b = Zeros(<<1, 1, 1, c>>)
    /\ dX = Zeros(din)
    /\ dW = Zeros(<<ff, ff, din[4], c>>)
    /\ db = Zeros(<<1, 1, 1, c>>)
    /\ vW = Zeros(<<ff, ff, din[4], c>>)
    /\ vb = Zeros(<<1, 1, 1, c>>)
    /\ sW = Zeros(<<ff, ff, din[4], c>>)
    /\ sb = Zeros(<<1, 1, 1, c>>)
    /\ dZ_pad = Zeros(<<din[1], din[2] + ff - 1, din[3] + ff - 1, c>>)
    /\ calls = 0
    /\ forwards = 0
    /\ last = [op |-> "__init__", status |-> "ok", dA |-> NoArray]
    /\ ret = NoArray

\* contract('pqrs,pqrtbmn->tbms', W, M), M the as_strided view of buf
contract_forward(Wt, buf, shape, strides) ==
    Build4(<<shape[4], shape[5], shape[6], Wt.shape[4]>>,
           LAMBDA t, bb, m, s :
               SeqSum([k \in 1..(shape[1] * shape[2] * shape[3] * shape[7]) |->
                   LET n == (k - 1) % shape[7]
                       r == ((k - 1) \div shape[7]) % shape[3]
                       q == ((k - 1) \div (shape[7] * shape[3])) % shape[2]
                       p == (k - 1) \div (shape[7] * shape[3] * shape[2])
                   IN  FMul(At(Wt, p, q, r, s),
                            buf.data[1 + p * strides[1] + q * strides[2] + r * strides[3]
                                       + t * strides[4] + bb * strides[5] + m * strides[6]
                                       + n * strides[7]])]))

\* the shape a broadcast of b over Z: Z + b with b of shape (1, 1, 1, c)
AddBias(Zt, bt) == Build4(Zt.shape, LAMBDA n, i, j, s : At(Zt, n, i, j, s) + At(bt, 0, 0, 0, s))

ForwardStridesUnit(xs, st) == <<xs[2], xs[3], xs[4], xs[1], xs[2], xs[3], xs[4]>>

\* the strides of the window view M of forward, from the strides xs of x_pad
ForwardStrides(xs, st) == <<xs[2], xs[3], xs[4], xs[1], xs[2] * st, xs[3] * st, xs[4]>>

ForwardZ(Xin) ==
    LET n_h == IntDiv(Xin.shape[2] - f + 2 * pad, stride) + 1
        n_w == IntDiv(Xin.shape[3] - f + 2 * pad, stride) + 1
        x_pad == IF pad # 0 THEN NpPad(Xin, pad) ELSE Xin
        shape == <<f, f, dim_in[4], Xin.shape[1], n_h, n_w, 1>>
        xs == Strides(x_pad.shape)
        strides == ForwardStrides(xs, stride)
    IN  AddBias(contract_forward(W, x_pad, shape, strides), b)

Forward(Xin) ==
    /\ WindowFits
    /\ X' = Xin
    /\ \E z \in {ForwardZ(Xin)} :
           /\ Z' = z
           /\ ret' = IF activation = "relu" THEN _relu(z)
                     ELSE IF activation = "none" THEN z ELSE NoArray
    /\ calls' = calls + 1
    /\ forwards' = forwards + 1
    /\ last' = [op |-> "forward", status |-> "ok", dA |-> NoArray]
    /\ UNCHANGED <<config, params, grads, moments, dZ_pad>>

\* ------------------------------------------------------------------------
\* Slices and broadcasting
\* ------------------------------------------------------------------------
\* the indices a[start:stop:step] selects in an axis of length n (step > 0)
PySlice(start, stop, step, n) ==
    LET lo0 == IF start < 0 THEN start + n ELSE start
        hi0 == IF stop < 0 THEN stop + n ELSE stop
        lo == IF lo0 < 0 THEN 0 ELSE IF lo0 > n THEN n ELSE lo0
        hi == IF hi0 < 0 THEN 0 ELSE IF hi0 > n THEN n ELSE hi0
        cnt == IF hi > lo THEN (hi - lo + step - 1) \div step ELSE 0
    IN  [k \in 1..cnt |-> lo + (k - 1) * step]

\* numpy can broadcast an array of shape src into one of shape dst
Broadcasts(src, dst) ==
    /\ Len(src) = Len(dst)
    /\ \A k \in 1..Len(dst) : src[k] = dst[k] \/ src[k] = 1

\* element of T at an index of the broadcast result: axes of length 1 repeat
AtB(T, i1, i2, i3, i4) ==
    At(T, IF T.shape[1] = 1 THEN 0 ELSE i1, IF T.shape[2] = 1 THEN 0 ELSE i2,
          IF T.shape[3] = 1 THEN 0 ELSE i3, IF T.shape[4] = 1 THEN 0 ELSE i4)

\* the position of v in the sequence s, 0 when absent
Find(s, v) == IF \E k \in 1..Len(s) : s[k] = v THEN CHOOSE k \in 1..Len(s) : s[k] = v ELSE 0

\* dA * self._deriv_relu(self.Z), for dA of the shape of Z
MaskedGradient(dA, Zt) ==
    [shape |-> dA.shape,
     data |-> LET deriv == _deriv_relu(Zt).data
              IN  [k \in 1..Len(dA.data) |-> FMul(dA.data[k], deriv[k])]]

\* lam / m * W, m an integer
Regularization(Wt, lam, m) ==
    [shape |-> Wt.shape, data |-> [k \in 1..Len(Wt.data) |-> FMul(lam \div m, Wt.data[k])]]

AddArrays(A, B) == [shape |-> A.shape, data |-> [k \in 1..Len(A.data) |-> A.data[k] + B.data[k]]]

\* ------------------------------------------------------------------------
\* conv_backward: the naive backward pass
\* ------------------------------------------------------------------------
\* dx_pad after the loops over h, w and c: np.pad(self.dX) plus every window's term
NaiveDxPad(dx_pad, Wt, dZ, fs, st) ==
    Build4(dx_pad.shape,
           LAMBDA n, u, v, r :
               At(dx_pad, n, u, v, r)
               + SeqSum([k \in 1..(dZ.shape[2] * dZ.shape[3] * dZ.shape[4]) |->
                   LET c == (k - 1) % dZ.shape[4]
                       w == ((k - 1) \div dZ.shape[4]) % dZ.shape[3]
                       h == (k - 1) \div (dZ.shape[4] * dZ.shape[3])
                       v_s == h * st
                       v_e == h * st + fs
                       h_s == w * st
                       h_e == w * st + fs
                   IN  IF u >= v_s /\ u < v_e /\ v >= h_s /\ v < h_e
                       THEN FMul(At(Wt, u - v_s, v - h_s, r, c), AtB(dZ, n, h, w, c))
                       ELSE 0]))

\* self.dW after the loops: the sum over windows and batch of x_pad * dZ
NaiveDW(x_pad, Wshape, dZ, st) ==
    Build4(Wshape,
           LAMBDA p, q, r, c :
               SeqSum([k \in 1..(dZ.shape[1] * dZ.shape[2] * dZ.shape[3]) |->
                   LET w == (k - 1) % dZ.shape[3]
                       h == ((k - 1) \div dZ.shape[3]) % dZ.shape[2]
                       n == (k - 1) \div (dZ.shape[3] * dZ.shape[2])
                   IN  FMul(At(x_pad, n, h * st + p, w * st + q, r), At(dZ, n, h, w, c))]))

\* self.db after the loops
NaiveDb(dZ) ==
    Build4(<<1, 1, 1, dZ.shape[4]>>,
           LAMBDA a, e, g, c :
               SeqSum([k \in 1..(dZ.shape[1] * dZ.shape[2] * dZ.shape[3]) |->
                   At(dZ, (k - 1) \div (dZ.shape[3] * dZ.shape[2]),
                          ((k - 1) \div dZ.shape[3]) % dZ.shape[2], (k - 1) % dZ.shape[3], c)]))

\* dx_pad[:, pad:-pad, pad:-pad, :]
Unpad(dx_pad, p) ==
    LET rows == PySlice(p, -p, 1, dx_pad.shape[2])
        cols == PySlice(p, -p, 1, dx_pad.shape[3])
    IN  Build4(<<dx_pad.shape[1], Len(rows), Len(cols), dx_pad.shape[4]>>,
               LAMBDA n, i, j, r : At(dx_pad, n, rows[i + 1], cols[j + 1], r))

\* self.dX[:, :, :, :] = src
AssignAll(dst, src) == Build4(dst.shape, LAMBDA n, i, j, r : AtB(src, n, i, j, r))

RegDivisorCurrent == X.shape[1]

\* self.dim_in[0], the divisor of the regularization term in both backward passes
RegDivisor == dim_in[1]

\* the gradients conv_backward(dA) leaves, and whether it raised
conv_backward(dA) ==
    LET x_pad == NpPad(X, pad)
        dx_pad == NpPad(dX, pad)
        dZ == MaskedGradient(dA, Z)
        iterations == dA.shape[2] * dA.shape[3] * dA.shape[4]
        window == <<dZ.shape[1], f, f, W.shape[3]>>
        target == <<dx_pad.shape[1], Len(PySlice(0, f, 1, dx_pad.shape[2])),
                    Len(PySlice(0, f, 1, dx_pad.shape[3])), dx_pad.shape[4]>>
        summed == NaiveDxPad(dx_pad, W, dZ, f, stride)
        unpadded == Unpad(summed, pad)
    IN  IF iterations > 0 /\ ~Broadcasts(window, target)
        THEN [status |-> "ValueError", dX |-> dX, dW |-> Zeros(dW.shape), db |-> Zeros(db.shape)]
        ELSE IF ~Broadcasts(unpadded.shape, dX.shape)
        THEN [status |-> "ValueError", dX |-> dX,
              dW |-> NaiveDW(x_pad, dW.shape, dZ, stride), db |-> NaiveDb(dZ)]
        ELSE [status |-> "ok", dX |-> AssignAll(dX, unpadded),
              dW |-> AddArrays(NaiveDW(x_pad, dW.shape, dZ, stride),
                               Regularization(W, lamb, RegDivisor)),
              db |-> NaiveDb(dZ)]

ConvBackward(dA) ==
    /\ WindowFits
    /\ dA.shape = Z.shape
    /\ \E r \in {conv_backward(dA)} :
           /\ dX' = r.dX
           /\ dW' = r.dW
           /\ db' = r.db
           /\ ret' = IF r.status = "ok" THEN r.dX ELSE NoArray
           /\ last' = [op |-> "conv_backward", status |-> r.status, dA |-> dA]
    /\ calls' = calls + 1
    /\ UNCHANGED <<config, cache, params, moments, dZ_pad, forwards>>

\* ------------------------------------------------------------------------
\* backward: the strided backward pass
\* ------------------------------------------------------------------------
\* np.rot90(W, 2): a half turn in the plane of the first two axes
rot90_2(Wt) ==
    Build4(Wt.shape,
           LAMBDA p, q, r, s : At(Wt, Wt.shape[1] - 1 - p, Wt.shape[2] - 1 - q, r, s))

\* dA.reshape(shape): the same buffer read under another shape
Reshape(T, shape) == [shape |-> shape, data |-> T.data]

\* self.dZ_pad[:, rows, cols, :] = dZ
Embed(buf, rows, cols, dZ) ==
    Build4(buf.shape,
           LAMBDA n, u, v, c :
               IF Find(rows, u) > 0 /\ Find(cols, v) > 0
               THEN AtB(dZ, n, Find(rows, u) - 1, Find(cols, v) - 1, c)
               ELSE At(buf, n, u, v, c))

\* contract('pqrs,bmnspq->bmnr', W_rot, M), M the as_strided view of buf
contract_dX(W_rot, buf, shape, strides) ==
    Build4(<<shape[1], shape[2], shape[3], W_rot.shape[3]>>,
           LAMBDA bb, m, n, r :
               SeqSum([k \in 1..(shape[4] * shape[5] * shape[6]) |->
                   LET q == (k - 1) % shape[6]
                       p == ((k - 1) \div shape[6]) % shape[5]
                       s == (k - 1) \div (shape[6] * shape[5])
                   IN  FMul(At(W_rot, p, q, r, s),
                            buf.data[1 + bb * strides[1] + m * strides[2] + n * strides[3]
                                       + s * strides[4] + p * strides[5] + q * strides[6]])]))

\* contract('abcd,pqsabc->pqsd', dZ, M), M the as_strided view of buf
contract_dW(dZ, buf, shape, strides) ==
    Build4(<<shape[1], shape[2], shape[3], dZ.shape[4]>>,
           LAMBDA p, q, s, d :
               SeqSum([k \in 1..(shape[4] * shape[5] * shape[6]) |->
                   LET c == (k - 1) % shape[6]
                       bb == ((k - 1) \div shape[6]) % shape[5]
                       a == (k - 1) \div (shape[6] * shape[5])
                   IN  FMul(At(dZ, a, bb, c, d),
                            buf.data[1 + p * strides[1] + q * strides[2] + s * strides[3]
                                       + a * strides[4] + bb * strides[5] + c * strides[6]])]))

\* contract('abcd->d', dZ).reshape(1, 1, 1, n_C)
contract_db(dZ) == NaiveDb(dZ)


\* the gradients and the buffer backward(dA) leaves, and whether it raised
backward(dA) ==
    LET dZ == IF Len(dA.shape) = 2
              THEN MaskedGradient(Reshape(dA, <<dA.shape[2]>> \o Tail(dim_out)), Z)
              ELSE MaskedGradient(dA, Z)
        buf0 == IF dZ.shape[1] # dZ_pad.shape[1]
                THEN _allocate_dZ_pad(dZ.shape[1], X.shape, W.shape, Z.shape)
                ELSE dZ_pad
        W_rot == rot90_2(W)
        pad_dZ == W.shape[1] - (pad + 1)
        rows == IF pad_dZ = 0 THEN PySlice(0, buf0.shape[2], stride, buf0.shape[2])
                ELSE PySlice(pad_dZ, -pad_dZ, stride, buf0.shape[2])
        cols == IF pad_dZ = 0 THEN PySlice(0, buf0.shape[3], stride, buf0.shape[3])
                ELSE PySlice(pad_dZ, -pad_dZ, stride, buf0.shape[3])
        buf == Embed(buf0, rows, cols, dZ)
        bs == Strides(buf.shape)
        shape == <<buf.shape[1], buf.shape[2] - W_rot.shape[1] + 1,
                   buf.shape[3] - W_rot.shape[2] + 1, buf.shape[4],
                   W_rot.shape[1], W_rot.shape[2]>>
        strides == <<bs[1], bs[2], bs[3], bs[4], bs[2], bs[3]>>
        X_pad == NpPad(X, pad)
        xs == Strides(X_pad.shape)
        shape_Z == <<W.shape[1], W.shape[2], W.shape[3], dZ.shape[1], dZ.shape[2], dZ.shape[3]>>
        strides_Z == <<xs[2], xs[3], xs[4], xs[1], xs[2] * stride, xs[3] * stride>>
    IN  IF ~Broadcasts(dZ.shape, <<buf0.shape[1], Len(rows), Len(cols), buf0.shape[4]>>)
        THEN [status |-> "ValueError", dZ_pad |-> buf0, dX |-> dX,
              dW |-> Zeros(dW.shape), db |-> Zeros(db.shape)]
        ELSE [status |-> "ok", dZ_pad |-> buf,
              dX |-> contract_dX(W_rot, buf, shape, strides),
              dW |-> AddArrays(contract_dW(dZ, X_pad, shape_Z, strides_Z),
                               Regularization(W, lamb, RegDivisor)),
              db |-> contract_db(dZ)]

Backward(dA) ==
    /\ WindowFits
    /\ \/ Len(dA.shape) = 4 /\ dA.shape = Z.shape
       \/ Len(dA.shape) = 2 /\ dA.shape = <<Prod(Tail(dim_out)), Z.shape[1]>>
                            /\ Tail(dim_out) = Tail(Z.shape)
    /\ \E r \in {backward(dA)} :
           /\ dX' = r.dX
           /\ dW' = r.dW
           /\ db' = r.db
           /\ dZ_pad' = r.dZ_pad
           /\ ret' = IF r.status = "ok" THEN r.dX ELSE NoArray
           /\ last' = [op |-> "backward", status |-> r.status, dA |-> dA]
    /\ calls' = calls + 1
    /\ UNCHANGED <<config, cache, params, moments, forwards>>

\* ------------------------------------------------------------------------
\* update_parameters: one Adam step
\* ------------------------------------------------------------------------
\* beta * m + (1 - beta) * d
Moment(beta, m, d) ==
    [shape |-> m.shape,
     data |-> [k \in 1..Len(m.data) |-> FMul(beta, m.data[k]) + FMul(Scale - beta, d.data[k])]]

\* d ** 2
Square(d) == [shape |-> d.shape, data |-> [k \in 1..Len(d.data) |-> FMul(d.data[k], d.data[k])]]

\* m / (1 - beta ** t)
BiasCorrected(m, beta, t) ==
    [shape |-> m.shape,
     data |-> [k \in 1..Len(m.data) |-> FDiv(m.data[k], Scale - FPow(beta, t))]]

DescendAssign(param, rate, v, s, epsilon) ==
    [shape |-> param.shape,
     data |-> [k \in 1..Len(param.data) |->
                 FDiv(FMul(rate, v.data[k]), FSqrt(s.data[k]) + epsilon)]]

\* param - rate * v / (np.sqrt(s) + epsilon)
Descend(param, rate, v, s, epsilon) ==
    [shape |-> param.shape,
     data |-> [k \in 1..Len(param.data) |->
                 param.data[k] - FDiv(FMul(rate, v.data[k]), FSqrt(s.data[k]) + epsilon)]]

UpdateParameters(rate, t, beta1, beta2, epsilon) ==
    /\ \E v \in {Moment(beta1, vW, dW)}, s \in {Moment(beta2, sW, Square(dW))} :
           /\ vW' = v
           /\ sW' = s
           /\ W' = Descend(W, rate, BiasCorrected(v, beta1, t), BiasCorrected(s, beta2, t),
                           epsilon)
    /\ \E v \in {Moment(beta1, vb, db)}, s \in {Moment(beta2, sb, Square(db))} :
           /\ vb' = v
           /\ sb' = s
           /\ b' = Descend(b, rate, BiasCorrected(v, beta1, t), BiasCorrected(s, beta2, t),
                           epsilon)
    /\ ret' = NoArray
    /\ last' = [op |-> "update_parameters", status |-> "ok", dA |-> NoArray]
    /\ calls' = calls + 1
    /\ UNCHANGED <<config, cache, grads, dZ_pad, forwards>>

\* ------------------------------------------------------------------------
\* The calls a trainer makes, and the specifications
\* ------------------------------------------------------------------------
ConstructAny(Ms, Hs, Ws, Chs, Fs, Ss, Ps, Acts, Lams, Wks) ==
    \E m \in Ms, h \in Hs, w \in Ws, ch \in Chs, ff \in Fs, s \in Ss, p \in Ps,
       act \in Acts, lam \in Lams, wkind \in Wks :
        Construct(<<m, h, w, ch[1]>>, ff, ch[2], s, p, act, lam, wkind)

ForwardCall(Ms, Kinds) ==
    \E Xin \in {PatternArray(kind, <<m, dim_in[2], dim_in[3], dim_in[4]>>, 0) :
                    m \in Ms, kind \in Kinds} :
        Forward(Xin)

BackwardCall(Kinds, FlatKinds) ==
    \E dA \in {PatternArray(kind, Z.shape, 1) : kind \in Kinds}
              \cup {PatternArray(kind, <<Prod(Tail(Z.shape)), Z.shape[1]>>, 1) :
                       kind \in FlatKinds} :
        Backward(dA)

ConvBackwardCall(Kinds) ==
    \E dA \in {PatternArray(kind, Z.shape, 1) : kind \in Kinds} : ConvBackward(dA)

\* the documented defaults of beta1 and beta2; epsilon is the grid's smallest
\* positive number, the default 1e-8 being below its resolution
UpdateCall ==
    \E rate \in Rates, t \in 1..MaxT :
        UpdateParameters(rate, t, (9 * Scale) \div 10, (999 * Scale) \div 1000, 1)

\* forward passes over every geometry
InitForward ==
    ConstructAny({2}, 1..MaxDim, 1..MaxDim, Channels, Filters, StrideValues, PadValues,
                 Activations, {0}, Patterns)

ForwardPass == calls < MaxCalls /\ ForwardCall(Batches, Patterns)

NextForward == ForwardPass

SpecForward == InitForward /\ [][NextForward]_vars

\* forward and both backward passes over every geometry
InitBackward ==
    ConstructAny(Batches, 1..MaxDim, 1..MaxDim, Channels, Filters, StrideValues, PadValues,
                 Activations, {Scale}, {"mixed"})

GradForward == calls < MaxCalls /\ ForwardCall(Batches, {"mixed"})

GradBackward == calls < MaxCalls /\ BackwardCall({"ones"}, {"mixed"})

GradConvBackward == calls < MaxCalls /\ ConvBackwardCall({"mixed"})

NextBackward == GradForward \/ GradBackward \/ GradConvBackward

SpecBackward == InitBackward /\ [][NextBackward]_vars

\* training runs of one small layer
Init ==
    \/ ConstructAny({2}, {1}, {2}, {<<1, 1>>}, {2}, {1}, {1}, {"relu"}, Lambdas, {"mixed"})
    \/ ConstructAny({2}, {2}, {2}, {<<1, 1>>}, {2}, {1}, {0}, {"relu"}, {0}, {"mixed"})

TrainForward == calls < MaxSteps /\ ForwardCall(Batches, {"mixed"})

TrainBackward == calls < MaxSteps /\ BackwardCall({"mixed", "zeros"}, {"mixed"})

TrainConvBackward == calls < MaxSteps /\ ConvBackwardCall({"mixed"})

TrainUpdate == calls < MaxSteps /\ UpdateCall

Next == TrainForward \/ TrainBackward \/ TrainConvBackward \/ TrainUpdate

Spec == Init /\ [][Next]_vars

\* ------------------------------------------------------------------------
\* The convolution written out, for stating the properties
\* ------------------------------------------------------------------------
SumOver(n, F(_)) == SeqSum([k \in 1..n |-> F(k - 1)])

\* floor((h - f + 2*pad) / stride) + 1
OutSize(h) == ((h - f + 2 * pad) \div stride) + 1

\* X zero-padded by pad on each spatial side, at a padded position
PaddedX(n, i, j, r) ==
    IF i - pad >= 0 /\ i - pad < X.shape[2] /\ j - pad >= 0 /\ j - pad < X.shape[3]
    THEN At(X, n, i - pad, j - pad, r) ELSE 0

ConvSum(n, i, j, s) ==
    SumOver(f, LAMBDA p : SumOver(f, LAMBDA q : SumOver(dim_in[4], LAMBDA r :
        FMul(At(W, p, q, r, s), PaddedX(n, i * stride + p, j * stride + q, r)))))

AllEqual(T, v) == \A k \in 1..Len(T.data) : T.data[k] = v

IsBackwardOp(op) == op \in {"backward", "conv_backward"}

\* the last dA as a 4-dimensional array of the shape of Z
LastDA == [shape |-> Z.shape, data |-> last.dA.data]

\* the sum of the last dA over batch and spatial axes, in channel c
SumDA(c) ==
    SumOver(Z.shape[1], LAMBDA n : SumOver(Z.shape[2], LAMBDA i : SumOver(Z.shape[3],
        LAMBDA j : At(LastDA, n, i, j, c))))

\* dZ[n, i, j, s] as both backward passes form it: dA where Z > 0, else 0
MaskedDA(n, i, j, s) == IF At(Z, n, i, j, s) > 0 THEN At(LastDA, n, i, j, s) ELSE 0

\* the sum over batch and output positions of Xpad * dZ
DataGradient(p, q, r, s) ==
    SumOver(Z.shape[1], LAMBDA n : SumOver(Z.shape[2], LAMBDA i : SumOver(Z.shape[3],
        LAMBDA j : FMul(PaddedX(n, i * stride + p, j * stride + q, r), MaskedDA(n, i, j, s)))))

\* ------------------------------------------------------------------------
\* Properties
\* ------------------------------------------------------------------------

\* C1 (as claimed): after a forward call, backward(dA) and conv_backward(dA) called one
\* after the other, in either order, with the same 4-dimensional dA of shape dim_out
\* both complete and leave equal dX, dW and db.
C1_BackwardsAgree ==
    [][(/\ calls' = calls + 1
        /\ forwards >= 1
        /\ IsBackwardOp(last.op) /\ IsBackwardOp(last'.op) /\ last'.op # last.op
        /\ last'.dA = last.dA /\ last.dA.shape = dim_out)
       => (/\ last.status = "ok" /\ last'.status = "ok"
           /\ dX' = dX /\ dW' = dW /\ db' = db)]_vars

\* C2 (as claimed): for every geometry the stored output height and width, and those
\* forward computes, equal floor((H_in - f + 2*pad) / stride) + 1.
C2_OutputSizeIsFloor ==
    /\ dim_out[2] = OutSize(dim_in[2])
    /\ dim_out[3] = OutSize(dim_in[3])
    /\ last.op = "forward" => Z.shape[2] = OutSize(X.shape[2]) /\ Z.shape[3] = OutSize(X.shape[3])

\* C2 (amended): whenever H_in - f + 2*pad >= 0 the stored output height equals
\* floor((H_in - f + 2*pad) / stride) + 1, the same for the width, and forward computes
\* the same sizes.
C2_OutputSizeIsFloorWhenFits ==
    /\ dim_in[2] - f + 2 * pad >= 0 => dim_out[2] = OutSize(dim_in[2])
    /\ dim_in[3] - f + 2 * pad >= 0 => dim_out[3] = OutSize(dim_in[3])
    /\ last.op = "forward" =>
           /\ Z.shape = <<X.shape[1], OutSize(X.shape[2]), OutSize(X.shape[3]), n_c>>
           /\ Z.shape[2] = dim_out[2] /\ Z.shape[3] = dim_out[3]

C2_Witness ==
    /\ last.op = "forward"
    /\ (dim_in[2] - f + 2 * pad) % stride # 0
    /\ pad > 0 /\ stride > 1 /\ dim_out[2] > 1

C4_DerivativeMatchesActivation ==
    (forwards >= 1 /\ IsBackwardOp(last.op) /\ last.status = "ok" /\ activation = "none")
    => \A c \in 0..(n_c - 1) : At(db, 0, 0, 0, c) = SumDA(c)

\* C5 (as claimed): conv_backward(dA) called right after a completed backward pass with
\* the same dA, hence the same X, Z and W, leaves the dX that pass left.
C5_GradientsOverwritten ==
    [][(/\ calls' = calls + 1
        /\ IsBackwardOp(last.op) /\ last.status = "ok"
        /\ last'.op = "conv_backward" /\ last'.status = "ok"
        /\ last'.dA = last.dA)
       => dX' = dX]_vars

\* C6 (as claimed): an update_parameters call made when dW = 0 and db = 0 leaves W and b
\* unchanged.
C6_ZeroGradientKeepsParameters ==
    [][(/\ calls' = calls + 1
        /\ last'.op = "update_parameters"
        /\ AllEqual(dW, 0) /\ AllEqual(db, 0))
       => (W' = W /\ b' = b)]_vars

\* C6 (amended): an update_parameters call with t >= 1 made when dW = 0, db = 0 and the
\* first moments vW and vb are 0 leaves W and b unchanged, and leaves vW and vb at 0, so
\* the same holds for the calls that follow.
C6_ZeroGradientZeroMomentKeepsParameters ==
    [][(/\ calls' = calls + 1
        /\ last'.op = "update_parameters"
        /\ AllEqual(dW, 0) /\ AllEqual(db, 0)
        /\ AllEqual(vW, 0) /\ AllEqual(vb, 0))
       => (W' = W /\ b' = b /\ AllEqual(vW', 0) /\ AllEqual(vb', 0))]_vars

C6_Witness ==
    /\ last.op = "update_parameters"
    /\ calls >= 2 /\ forwards = 0
    /\ AllEqual(dW, 0) /\ AllEqual(db, 0) /\ AllEqual(vW, 0) /\ AllEqual(vb, 0)
    /\ ~AllEqual(W, 0)

\* C7 (as claimed): a backward pass called first on a new layer raises and leaves dX, dW
\* and db as constructed.
C7_BackwardBeforeForwardRaises ==
    (calls = 1 /\ IsBackwardOp(last.op))
    => (/\ last.status # "ok"
        /\ ret = NoArray
        /\ AllEqual(dX, 0) /\ AllEqual(dW, 0) /\ AllEqual(db, 0))

\* C8: a completed backward pass leaves dW = (sum over batch and positions of
\* Xpad * dZ) + (lamb / m0) * W with m0 = dim_in[0] of the construction, whatever the
\* batch size of the cached X.
C8_RegularizationByConstructionBatch ==
    (IsBackwardOp(last.op) /\ last.status = "ok")
    => /\ dW.shape = W.shape
       /\ \A p \in 0..(f - 1), q \in 0..(f - 1), r \in 0..(dim_in[4] - 1), s \in 0..(n_c - 1) :
              At(dW, p, q, r, s)
                  = DataGradient(p, q, r, s) + FMul(lamb \div dim_in[1], At(W, p, q, r, s))

C8_Witness ==
    /\ last.op = "backward" /\ last.status = "ok"
    /\ forwards >= 1
    /\ X.shape[1] # dim_in[1]
    /\ lamb \div X.shape[1] # lamb \div dim_in[1]
    /\ \E k \in 1..Len(dW.data) : dW.data[k] # 0 /\ W.data[k] # 0

\* C9 (as claimed): after a completed backward call that followed a forward call, dZ_pad
\* has shape (m, H_in+f-1, W_in+f-1, C_out), holds dZ[n,i,j,c] at
\* (n, pad_dZ + i*stride, pad_dZ + j*stride, c) with pad_dZ = f - (pad + 1), and is 0
\* everywhere else.
C9_PaddedGradientBuffer ==
    (forwards >= 1 /\ last.op = "backward" /\ last.status = "ok")
    => LET pad_dZ == f - (pad + 1)
       IN  /\ dZ_pad.shape = <<X.shape[1], dim_in[2] + f - 1, dim_in[3] + f - 1, n_c>>
           /\ \A n \in 0..(Z.shape[1] - 1), i \in 0..(Z.shape[2] - 1),
                 j \in 0..(Z.shape[3] - 1), c \in 0..(Z.shape[4] - 1) :
                  /\ pad_dZ + i * stride \in 0..(dZ_pad.shape[2] - 1)
                  /\ pad_dZ + j * stride \in 0..(dZ_pad.shape[3] - 1)
                  /\ At(dZ_pad, n, pad_dZ + i * stride, pad_dZ + j * stride, c)
                         = MaskedDA(n, i, j, c)
           /\ \A n \in 0..(dZ_pad.shape[1] - 1), u \in 0..(dZ_pad.shape[2] - 1),
                 v \in 0..(dZ_pad.shape[3] - 1), c \in 0..(dZ_pad.shape[4] - 1) :
                  (~\E i \in 0..(Z.shape[2] - 1), j \in 0..(Z.shape[3] - 1) :
                       u = pad_dZ + i * stride /\ v = pad_dZ + j * stride)
                  => At(dZ_pad, n, u, v, c) = 0

\* C10 (as claimed): after a completed backward pass that followed a forward call and
\* received a dA of the batch size of that call, dX has the shape of X, dW that of W and
\* db that of b.
C10_GradientShapes ==
    (forwards >= 1 /\ IsBackwardOp(last.op) /\ last.status = "ok")
    => (dX.shape = X.shape /\ dW.shape = W.shape /\ db.shape = b.shape)
====
